---- MODULE Spec2Model ----
(***************************************************************************)
(* Model of crynux_server.contracts.w3_pool (W3Guard, W3Pool) and of the   *)
(* senders in crynux_server.contracts that take their nonce from           *)
(* W3Pool.with_nonce, and of crynux_server.node_manager.state_manager      *)
(* (NodeStateManager) with the state cache and the relay it works on.      *)
(*                                                                         *)
(* Every asyncio task is a process with a program counter.  A step of the  *)
(* model is the code a task runs between two suspension points (an await   *)
(* that really yields to the event loop).                                  *)
(***************************************************************************)
EXTENDS Integers, Sequences, FiniteSets, TLC

\* ---------------------------------------------------------------- bounds
NumTasks == 3
PoolSize == 2
NumSenders == 3
MaxStart == 1
NumWaiters == 2
NumSetters == 2
NumCalls == 2

\* Config.staking_amount, in ether
staking_amount == 400

Tasks == 1..NumTasks
Closer == 0
Procs == Tasks \cup {Closer}
MaxId == NumTasks
Ids == 1..MaxId
NoGuard == 0
NoProc == -1
Senders == 1..NumSenders
NoneNonce == -1
Calls == 1..NumCalls

VARIABLES
    provider_type,  \* W3Pool.provider_type
    guards,         \* W3Pool._guards (the keys of the guard table)
    idle_pool,      \* W3Pool._idle_pool
    next_id,        \* W3Pool._next_id
    closed,         \* W3Pool._closed
    lockOwner,      \* W3Pool._condition: owner of its lock
    lockQ,          \* W3Pool._condition: tasks queued on its lock (FIFO)
    condQ,          \* W3Pool._condition: tasks parked in wait() (FIFO)
    closedFlag,     \* per guard: session.closed (HTTP) / _closed (WS, Other)
    pc,             \* position of each task and of the closer
    cur,            \* the guard a process holds or is closing
    snap,           \* W3Pool.close: the list `guards` still to be closed
    result,         \* how the get() call or the scope of a task ended
    waited,         \* the task's get() has parked in wait()
    out,            \* ids returned by get() and not put back by on_guard_idle
    released,       \* ids that on_guard_idle has appended to the idle queue
    broken,         \* ids whose scope ended with ConnectionClosed
    nonce,          \* W3Pool._nonce
    nonce_lock,     \* W3Pool._nonce_lock: owner
    nonceQ,         \* W3Pool._nonce_lock: queued senders (FIFO)
    remote,         \* pending transaction count of the account on the node
    remote0,        \* that count before the first send
    spc,            \* position of each sender
    kind,           \* what a sender runs: a scoped send or Contracts.transfer
    got,            \* the nonce yielded to a sender
    failed,         \* some fetch, scope or send did not succeed
    advanced,       \* per sender: the cache advanced for the yielded nonce
    outcome,        \* per sender: the submission succeeded or failed
    stale           \* a nonce-pattern failure happened and no fetch since

poolVars == <<provider_type, guards, idle_pool, next_id, closed, lockOwner,
              lockQ, condQ, closedFlag, pc, cur, snap, result, waited, out,
              released, broken>>
nonceVars == <<nonce, nonce_lock, nonceQ, remote, remote0, spc, kind, got,
               failed, advanced, outcome, stale>>

VARIABLES
    chain_status,   \* the status of the node on the relay (ChainNodeStatus)
    node_state,     \* state cache: NodeState.status
    tx_state,       \* state cache: TxState (status, message)
    cop,            \* per caller: start, stop, pause or resume
    cpc,            \* per caller: position of its operation or wait
    cpending,       \* per caller: the local `pending` of _wait_for_stop/pause
    sync_pc,        \* start_sync: position of the loop
    chain_score,    \* the scores of the node on the relay
    score_state,    \* state cache: NodeScoreState
    try_pc,         \* try_start: position of its caller
    try_res,        \* try_start: how the last call ended
    stop_pc,        \* try_stop: position of its caller
    stop_res,       \* try_stop: how the last call ended
    csample,        \* per caller: the remote status its poll received
    sync_sample,    \* start_sync: the remote status its tick received
    privkey,        \* config.ethereum.privkey
    klock,          \* config._condition: owner and queue of its lock
    kwaiters,       \* config._condition: tasks parked in wait() (FIFO)
    kpc,            \* position of each caller of wait_privkey / set_privkey
    kval,           \* per caller of set_privkey: its argument
    kret,           \* per caller of wait_privkey: the key it returned
    kparked,        \* the callers of wait_privkey that have parked in wait()
    init_pc,        \* Contracts.init: where the call is
    initialized     \* Contracts._initialized

nodeVars == <<chain_status, node_state, tx_state, cop, cpc, cpending,
              sync_pc>>
scoreVars == <<chain_score, score_state>>
tryVars == <<try_pc, try_res>>
stopVars == <<stop_pc, stop_res>>
raceVars == <<csample, sync_sample>>
keyVars == <<privkey, klock, kwaiters, kpc, kval, kret, kparked>>
initVars == <<init_pc, initialized>>
vars == <<poolVars, nonceVars, nodeVars, scoreVars, tryVars, stopVars,
          raceVars, keyVars, initVars>>
notPool == <<nonceVars, nodeVars, scoreVars, tryVars, stopVars, raceVars, keyVars, initVars>>
notNonce == <<poolVars, nodeVars, scoreVars, tryVars, stopVars, raceVars, keyVars, initVars>>
notNode == <<poolVars, nonceVars, scoreVars, tryVars, stopVars, raceVars, keyVars, initVars>>

\* ------------------------------------------------------------- helpers
RECURSIVE SetToSeq(_)
\* list(self._guards.values()): dict order is insertion order, ids ascend
SetToSeq(S) ==
    IF S = {} THEN <<>>
    ELSE LET m == CHOOSE x \in S : \A y \in S : x <= y
         IN <<m>> \o SetToSeq(S \ {m})

SeqSet(s) == {s[i] : i \in 1..Len(s)}

\* deque.remove(id) / list.remove: drop the first occurrence
RemoveFirst(s, x) ==
    IF \E i \in 1..Len(s) : s[i] = x
    THEN LET k == CHOOSE i \in 1..Len(s) : s[i] = x /\ \A j \in 1..(i-1) : s[j] # x
         IN SubSeq(s, 1, k-1) \o SubSeq(s, k+1, Len(s))
    ELSE s

\* W3Pool.__init__: the pool size is 1 for an injected provider
pool_size == IF provider_type = "Other" THEN 1 ELSE PoolSize

\* line 184 as appendleft: the released id goes to the front
DequeAppendLeft(q, x) ==
    IF Len(q) >= pool_size THEN <<x>> \o SubSeq(q, 1, Len(q) - 1) ELSE <<x>> \o q

\* deque(maxlen=pool_size).append: a full deque drops its leftmost element
DequeAppend(q, x) ==
    IF Len(q) >= pool_size THEN Tail(q) \o <<x>> ELSE q \o <<x>>

\* the lock of the condition: its owner and the FIFO queue of waiters
Lock == [o |-> lockOwner, q |-> lockQ]

SetLock(l) == lockOwner' = l.o /\ lockQ' = l.q

\* anyio Lock.acquire: take the lock when free, otherwise queue behind
\* the other waiters
Acquired(l, p) ==
    IF l.o = NoProc THEN [o |-> p, q |-> l.q] ELSE [o |-> l.o, q |-> l.q \o <<p>>]

\* anyio Lock.release: ownership passes to the first queued task
Released(l) ==
    IF l.q = <<>> THEN [o |-> NoProc, q |-> <<>>]
    ELSE [o |-> Head(l.q), q |-> Tail(l.q)]

\* a queued acquire is cancelled: the task leaves the queue
Left(l, p) == [o |-> l.o, q |-> RemoveFirst(l.q, p)]

LockAcquire(p) == SetLock(Acquired(Lock, p))

LockRelease == SetLock(Released(Lock))

RECURSIVE SkipClosed(_, _)
\* a guard whose close() finds it closed already returns without
\* suspending; the caller goes on with what follows
SkipClosed(sn, flags) ==
    IF sn # <<>> /\ Head(sn) \in flags THEN SkipClosed(Tail(sn), flags) ELSE sn

\* --------------------------------------------------------------- Init
InitPool ==
    /\ provider_type \in {"HTTP", "WS", "Other"}
    /\ guards = {}
    /\ idle_pool = <<>>
    /\ next_id = 1
    /\ closed = FALSE
    /\ lockOwner = NoProc
    /\ lockQ = <<>>
    /\ condQ = <<>>
    /\ closedFlag = {}
    /\ pc = [p \in Procs |-> "start"]
    /\ cur = [p \in Procs |-> NoGuard]
    /\ snap = <<>>
    /\ result = [t \in Tasks |-> "none"]
    /\ waited = [t \in Tasks |-> FALSE]
    /\ released = {}
    /\ out = {}
    /\ broken = {}

\* ------------------------------------------------------- W3Pool.get
\* assert not self._closed, then `async with self._condition` tries the
\* lock; there is no suspension point between the two.  The tasks run the
\* same code, so they are numbered in the order of their get() calls.
GetCall(t) ==
    /\ pc[t] = "start"
    /\ \A u \in Tasks : u < t => pc[u] # "start"
    /\ IF closed
       THEN /\ pc' = [pc EXCEPT ![t] = "done"]
            /\ result' = [result EXCEPT ![t] = "pool_closed"]
            /\ UNCHANGED <<lockOwner, lockQ>>
       ELSE /\ pc' = [pc EXCEPT ![t] = "get_locked"]
            /\ result' = result
            /\ LockAcquire(t)
    /\ UNCHANGED <<provider_type, guards, idle_pool, next_id, closed, condQ,
                   closedFlag, cur, snap, waited, out, released, broken>>
    /\ UNCHANGED notPool

\* line 271: no idle guard and fewer guards than the pool size
HasRoomOffByOne == Len(idle_pool) = 0 /\ Cardinality(guards) <= pool_size

HasRoom == Len(idle_pool) = 0 /\ Cardinality(guards) < pool_size

\* line 283: popleft() leaves the rest of the idle queue
PopLeftKeeps(q) == q

PopLeft(q) == Tail(q)

\* lines 277-286: the wait loop, the closed check and the reuse of an idle
\* guard.  Condition.wait() parks the task and releases the lock.
WaitLoop(t) ==
    IF Len(idle_pool) = 0 /\ ~closed
    THEN /\ condQ' = condQ \o <<t>>
         /\ LockRelease
         /\ pc' = [pc EXCEPT ![t] = "cond_wait"]
         /\ waited' = [waited EXCEPT ![t] = TRUE]
         /\ UNCHANGED <<idle_pool, cur, result, out>>
    ELSE IF closed
    THEN /\ LockRelease
         /\ pc' = [pc EXCEPT ![t] = "done"]
         /\ result' = [result EXCEPT ![t] = "pool_closed"]
         /\ UNCHANGED <<idle_pool, cur, condQ, out, waited>>
    ELSE /\ cur' = [cur EXCEPT ![t] = Head(idle_pool)]
         /\ idle_pool' = PopLeft(idle_pool)
         /\ out' = out \cup {Head(idle_pool)}
         /\ LockRelease
         /\ pc' = [pc EXCEPT ![t] = "using"]
         /\ UNCHANGED <<condQ, waited, result>>

\* line 271: the lock is held; construct a new guard when there is room
GetLocked(t) ==
    /\ pc[t] = "get_locked"
    /\ lockOwner = t
    /\ IF HasRoom
       THEN /\ pc' = [pc EXCEPT ![t] = "new_w3"]
            /\ UNCHANGED <<idle_pool, cur, result, condQ, waited, out,
                           lockOwner, lockQ>>
       ELSE WaitLoop(t)
    /\ UNCHANGED <<provider_type, guards, next_id, closed, closedFlag, snap,
                   released, broken>>
    /\ UNCHANGED notPool

\* lines 272-276 with _new_w3 (207-266): the guard is built while the lock
\* is held, entered in the table and returned
NewW3Ok(t) ==
    /\ pc[t] = "new_w3"
    /\ guards' = guards \cup {next_id}
    /\ cur' = [cur EXCEPT ![t] = next_id]
    /\ out' = out \cup {next_id}
    /\ next_id' = next_id + 1
    /\ LockRelease
    /\ pc' = [pc EXCEPT ![t] = "using"]
    /\ UNCHANGED <<provider_type, idle_pool, closed, condQ, closedFlag, snap,
                   result, waited, released, broken>>
    /\ UNCHANGED notPool

\* _new_w3 raises (the connection cannot be opened): get() fails, the lock
\* is released, no id is consumed
NewW3Fail(t) ==
    /\ pc[t] = "new_w3"
    /\ LockRelease
    /\ pc' = [pc EXCEPT ![t] = "done"]
    /\ result' = [result EXCEPT ![t] = "error"]
    /\ UNCHANGED <<provider_type, guards, idle_pool, next_id, closed, condQ,
                   closedFlag, cur, snap, waited, out, released, broken>>
    /\ UNCHANGED notPool

\* Condition.wait() after notify: the task queues for the lock again
CondWake(t) ==
    /\ pc[t] = "cond_wait"
    /\ t \notin SeqSet(condQ)
    /\ LockAcquire(t)
    /\ pc' = [pc EXCEPT ![t] = "get_relocked"]
    /\ UNCHANGED <<provider_type, guards, idle_pool, next_id, closed, condQ,
                   closedFlag, cur, snap, result, waited, out, released, broken>>
    /\ UNCHANGED notPool

\* back in the loop of line 277 with the lock held
GetRelocked(t) ==
    /\ pc[t] = "get_relocked"
    /\ lockOwner = t
    /\ WaitLoop(t)
    /\ UNCHANGED <<provider_type, guards, next_id, closed, closedFlag, snap,
                   released, broken>>
    /\ UNCHANGED notPool

\* ---------------------------------------------------- W3Guard.close
\* Process p, not holding the lock (which is in state l), goes on to
\* close the guards of the list sn, up to its next suspension point.
\* close() of a guard: HTTP tests `not session.closed`, session.close()
\* sets it and suspends; WS tests `not _closed`, disconnect() suspends;
\* Other tests `not _closed`, on_close goes for the lock.  With nothing
\* left to close a task is done: __aexit__ returns True (line 61), which
\* suppresses the ConnectionClosed of the scope, so the operation of the
\* caller ends without an error; W3Pool.close goes for the lock (line 315).
CloseGuards(p, sn, l, flags) ==
    LET rest == SkipClosed(sn, flags) IN
    IF rest = <<>>
    THEN /\ cur' = [cur EXCEPT ![p] = NoGuard]
         /\ closedFlag' = flags
         /\ IF p = Closer
            THEN /\ pc' = [pc EXCEPT ![p] = "c_locked"]
                 /\ snap' = <<>>
                 /\ result' = result
                 /\ SetLock(Acquired(l, p))
            ELSE /\ pc' = [pc EXCEPT ![p] = "done"]
                 /\ snap' = snap
                 /\ result' = [result EXCEPT ![p] = "swallowed"]
                 /\ SetLock(l)
    ELSE /\ cur' = [cur EXCEPT ![p] = Head(rest)]
         /\ result' = result
         /\ snap' = IF p = Closer THEN Tail(rest) ELSE snap
         /\ IF provider_type = "Other"
            THEN /\ pc' = [pc EXCEPT ![p] = "gc_locked"]
                 /\ closedFlag' = flags
                 /\ SetLock(Acquired(l, p))
            ELSE /\ pc' = [pc EXCEPT ![p] = "gc_torn"]
                 /\ closedFlag' = IF provider_type = "HTTP"
                                  THEN flags \cup {Head(rest)} ELSE flags
                 /\ SetLock(l)

\* what is left to close when the close() of cur[p] is over
Remaining(p) == IF p = Closer THEN snap ELSE <<>>

\* ------------------------------------------------ W3Guard.__aexit__
\* the scope of a guard ends: with ConnectionClosed the guard closes
\* itself, with anything else (normal end, another error, cancellation)
\* it reports idle.  Both run inside move_on_after(5, shield=True).
ScopeExit(t) ==
    /\ pc[t] = "using"
    /\ waited' = [waited EXCEPT ![t] = FALSE]
    /\ \/ /\ pc' = [pc EXCEPT ![t] = "idle_locked"]
          /\ LockAcquire(t)
          /\ UNCHANGED <<broken, closedFlag, cur, snap, result>>
       \/ /\ broken' = broken \cup {cur[t]}
          /\ CloseGuards(t, <<cur[t]>>, Lock, closedFlag)
    /\ UNCHANGED <<provider_type, guards, idle_pool, next_id, closed, condQ,
                   out, released>>
    /\ UNCHANGED notPool

\* W3Pool.on_guard_idle with the lock held; then __aexit__ returns False
OnGuardIdle(t) ==
    /\ pc[t] = "idle_locked"
    /\ lockOwner = t
    /\ IF cur[t] \in guards
       THEN /\ idle_pool' = DequeAppend(idle_pool, cur[t])
            /\ condQ' = IF condQ = <<>> THEN condQ ELSE Tail(condQ)
            /\ released' = released \cup {cur[t]}
            /\ out' = out \ {cur[t]}
       ELSE UNCHANGED <<idle_pool, condQ, released, out>>
    /\ LockRelease
    /\ pc' = [pc EXCEPT ![t] = "done"]
    /\ cur' = [cur EXCEPT ![t] = NoGuard]
    /\ UNCHANGED <<provider_type, guards, next_id, closed, closedFlag, snap,
                   result, waited, broken>>
    /\ UNCHANGED notPool

\* move_on_after(5) of __aexit__ expires while on_guard_idle is queued on
\* the lock: the task leaves the queue and __aexit__ ends
IdleExpire(t) ==
    /\ pc[t] = "idle_locked"
    /\ t \in SeqSet(lockQ)
    /\ lockQ' = RemoveFirst(lockQ, t)
    /\ pc' = [pc EXCEPT ![t] = "done"]
    /\ cur' = [cur EXCEPT ![t] = NoGuard]
    /\ UNCHANGED <<provider_type, guards, idle_pool, next_id, closed,
                   lockOwner, condQ, closedFlag, snap, result, waited, out,
                   released, broken>>
    /\ UNCHANGED notPool

\* ------------------------------------------------------ W3Pool.close
\* lines 307-313: nothing to do when closed, else snapshot the guards and
\* start to close them
CloseCall ==
    /\ pc[Closer] = "start"
    /\ IF closed
       THEN /\ pc' = [pc EXCEPT ![Closer] = "done"]
            /\ UNCHANGED <<snap, cur, closedFlag, lockOwner, lockQ, result>>
       ELSE CloseGuards(Closer, SetToSeq(guards), Lock, closedFlag)
    /\ UNCHANGED <<provider_type, guards, idle_pool, next_id, closed, condQ,
                   waited, out, released, broken>>
    /\ UNCHANGED notPool

\* ------------------------------------- W3Guard.close, after suspending
\* the teardown finished: on_close goes for the lock
GuardCloseTorn(p) ==
    /\ pc[p] = "gc_torn"
    /\ pc' = [pc EXCEPT ![p] = "gc_locked"]
    /\ LockAcquire(p)
    /\ UNCHANGED <<provider_type, guards, idle_pool, next_id, closed, condQ,
                   closedFlag, cur, snap, result, waited, out, released,
                   broken>>
    /\ UNCHANGED notPool

\* lines 191-192 with the evicted id left in the idle queue
IdleRemoveKeeps(q, id) == q

\* lines 191-192: an evicted id leaves the idle queue too
IdleRemove(q, id) == RemoveFirst(q, id)

\* W3Pool.on_guard_close with the lock held, then the end of close()
\* (WS and Other set _closed) and what the caller of close() does next
OnGuardClose(p) ==
    /\ pc[p] = "gc_locked"
    /\ lockOwner = p
    /\ IF cur[p] \in guards
       THEN /\ guards' = guards \ {cur[p]}
            /\ idle_pool' = IdleRemove(idle_pool, cur[p])
       ELSE UNCHANGED <<guards, idle_pool>>
    /\ CloseGuards(p, Remaining(p), Released(Lock),
                   IF provider_type = "HTTP" THEN closedFlag
                   ELSE closedFlag \cup {cur[p]})
    /\ UNCHANGED <<provider_type, next_id, closed, condQ, waited,
                   out, released, broken>>
    /\ UNCHANGED notPool

\* move_on_after(5) of close() expires during the teardown or while
\* on_close is queued on the lock: close() ends without on_close, and
\* without setting _closed
CloseExpire(p) ==
    /\ \/ /\ pc[p] = "gc_torn"
          /\ CloseGuards(p, Remaining(p), Lock, closedFlag)
       \/ /\ pc[p] = "gc_locked"
          /\ p \in SeqSet(lockQ)
          /\ CloseGuards(p, Remaining(p), Left(Lock, p), closedFlag)
    /\ UNCHANGED <<provider_type, guards, idle_pool, next_id, closed, condQ,
                   waited, out, released, broken>>
    /\ UNCHANGED notPool

\* line 317: notify_all() empties the list of parked tasks
NotifyNobody(q) == q

NotifyAll(q) == <<>>

\* lines 315-317: mark the pool closed and wake every waiter
CloseLocked ==
    /\ pc[Closer] = "c_locked"
    /\ lockOwner = Closer
    /\ closed' = TRUE
    /\ condQ' = NotifyAll(condQ)
    /\ LockRelease
    /\ pc' = [pc EXCEPT ![Closer] = "done"]
    /\ UNCHANGED <<provider_type, guards, idle_pool, next_id, closedFlag,
                   cur, snap, result, waited, out, released, broken>>
    /\ UNCHANGED notPool

\* -------------------------------------------------- W3Pool.with_nonce
InitNonce ==
    /\ nonce = NoneNonce
    /\ nonce_lock = NoProc
    /\ nonceQ = <<>>
    /\ remote \in 0..MaxStart
    /\ remote0 = remote
    /\ spc = [s \in Senders |-> "start"]
    /\ kind = [s \in Senders |-> "none"]
    /\ got = [s \in Senders |-> NoneNonce]
    /\ failed = FALSE
    /\ advanced = [s \in Senders |-> FALSE]
    /\ outcome = [s \in Senders |-> "none"]
    /\ stale = FALSE

\* line 292: the nonce lock can be taken only when nobody owns it
NonceLockAlwaysFree == TRUE

NonceLockFree == nonce_lock = NoProc

\* anyio Lock.acquire / release on _nonce_lock
NonceLockAcquire(s) ==
    IF NonceLockFree
    THEN /\ nonce_lock' = s
         /\ nonceQ' = nonceQ
    ELSE /\ nonce_lock' = nonce_lock
         /\ nonceQ' = nonceQ \o <<s>>

\* the exit of `async with self._nonce_lock` leaves the lock as it is
NonceLockKept == UNCHANGED <<nonce_lock, nonceQ>>

NonceLockRelease ==
    IF nonceQ = <<>>
    THEN /\ nonce_lock' = NoProc
         /\ nonceQ' = nonceQ
    ELSE /\ nonce_lock' = Head(nonceQ)
         /\ nonceQ' = Tail(nonceQ)

\* line 298: the nonce n is yielded to sender s.  The scope of
\* Contracts.transfer (lines 228-229) only stores the nonce, so it ends
\* at once: line 299 advances the cache and the lock is released before
\* the transaction is sent (line 230).  A scoped sender submits inside.
EnterScope(s, n) ==
    /\ got' = [got EXCEPT ![s] = n]
    /\ IF kind[s] = "transfer"
       THEN /\ nonce' = n + 1
            /\ advanced' = [advanced EXCEPT ![s] = TRUE]
            /\ NonceLockRelease
            /\ spc' = [spc EXCEPT ![s] = "sending"]
       ELSE /\ nonce' = n
            /\ advanced' = advanced
            /\ UNCHANGED <<nonce_lock, nonceQ>>
            /\ spc' = [spc EXCEPT ![s] = "in_scope"]

\* lines 290-292: assert not closed, then queue for the nonce lock.  The
\* senders are numbered in the order of their calls.
WithNonceCall(s, k) ==
    /\ spc[s] = "start"
    /\ \A u \in Senders : u < s => spc[u] # "start"
    /\ kind' = [kind EXCEPT ![s] = k]
    /\ IF closed
       THEN /\ spc' = [spc EXCEPT ![s] = "done"]
            /\ outcome' = [outcome EXCEPT ![s] = "failed"]
            /\ failed' = TRUE
            /\ UNCHANGED <<nonce_lock, nonceQ>>
       ELSE /\ spc' = [spc EXCEPT ![s] = "nonce_locked"]
            /\ outcome' = outcome
            /\ failed' = failed
            /\ NonceLockAcquire(s)
    /\ UNCHANGED <<nonce, remote, remote0, got, advanced, stale>>
    /\ UNCHANGED notNonce

\* the caller is cancelled while it is queued on the nonce lock: the
\* acquire is abandoned and the sender leaves the queue
NonceQueueCancel(s) ==
    /\ spc[s] = "nonce_locked"
    /\ s \in SeqSet(nonceQ)
    /\ nonceQ' = RemoveFirst(nonceQ, s)
    /\ spc' = [spc EXCEPT ![s] = "done"]
    /\ outcome' = [outcome EXCEPT ![s] = "failed"]
    /\ failed' = TRUE
    /\ UNCHANGED <<nonce, nonce_lock, remote, remote0, kind, got, advanced,
                   stale>>
    /\ UNCHANGED notNonce

\* line 293 with the lock held: fetch when nothing is cached, else yield
NonceLocked(s) ==
    /\ spc[s] = "nonce_locked"
    /\ nonce_lock = s
    /\ IF nonce = NoneNonce
       THEN /\ spc' = [spc EXCEPT ![s] = "fetching"]
            /\ UNCHANGED <<nonce, nonce_lock, nonceQ, got, advanced>>
       ELSE EnterScope(s, nonce)
    /\ UNCHANGED <<remote, remote0, kind, failed, outcome, stale>>
    /\ UNCHANGED notNonce

\* lines 294-298: get_transaction_count returned the pending count
FetchOk(s) ==
    /\ spc[s] = "fetching"
    /\ stale' = FALSE
    /\ EnterScope(s, remote)
    /\ UNCHANGED <<remote, remote0, kind, failed, outcome>>
    /\ UNCHANGED notNonce

\* get_transaction_count raised: the lock is released, nothing is cached
FetchFail(s) ==
    /\ spc[s] = "fetching"
    /\ NonceLockRelease
    /\ spc' = [spc EXCEPT ![s] = "done"]
    /\ outcome' = [outcome EXCEPT ![s] = "failed"]
    /\ failed' = TRUE
    /\ UNCHANGED <<nonce, remote, remote0, kind, got, advanced, stale>>
    /\ UNCHANGED notNonce

\* how a submission ends: accepted, rejected with an error whose text
\* matches "nonce", another Exception, or a cancellation
Outcomes == {"ok", "nonce_error", "other_error", "cancelled"}

\* lines 298-304 for a sender that submits inside the scope: success
\* advances the cache; an Exception whose text matches "nonce" drops it;
\* any other Exception and a cancellation (not an Exception) leave it
ScopedSubmit(s, o) ==
    /\ spc[s] = "in_scope"
    /\ nonce' = CASE o = "ok" -> nonce + 1
                  [] o = "nonce_error" -> NoneNonce
                  [] OTHER -> nonce
    /\ remote' = IF o = "ok" THEN remote + 1 ELSE remote
    /\ advanced' = [advanced EXCEPT ![s] = (o = "ok")]
    /\ stale' = IF o = "nonce_error" THEN TRUE ELSE stale
    /\ failed' = IF o = "ok" THEN failed ELSE TRUE
    /\ outcome' = [outcome EXCEPT ![s] = IF o = "ok" THEN "ok" ELSE "failed"]
    /\ NonceLockRelease
    /\ spc' = [spc EXCEPT ![s] = "done"]
    /\ UNCHANGED <<remote0, kind, got>>
    /\ UNCHANGED notNonce

\* Contracts.transfer lines 230-231: send_transaction with the stored
\* nonce, after the with_nonce scope was left
TransferSubmit(s, o) ==
    /\ spc[s] = "sending"
    /\ remote' = IF o = "ok" THEN remote + 1 ELSE remote
    /\ stale' = IF o = "nonce_error" THEN TRUE ELSE stale
    /\ failed' = IF o = "ok" THEN failed ELSE TRUE
    /\ outcome' = [outcome EXCEPT ![s] = IF o = "ok" THEN "ok" ELSE "failed"]
    /\ spc' = [spc EXCEPT ![s] = "done"]
    /\ UNCHANGED <<nonce, nonce_lock, nonceQ, remote0, kind, got, advanced>>
    /\ UNCHANGED notNonce

\* ------------------------------------------------- models.node
ChainNodeStatus ==
    {"QUIT", "AVAILABLE", "BUSY", "PENDING_PAUSE", "PENDING_QUIT", "PAUSED"}

\* models.NodeStatus
NodeStatus ==
    {"Init", "Running", "Paused", "Stopped", "Error", "PendingPause",
     "PendingStop"}

\* values that are no member of ChainNodeStatus
Unmapped == {"6", "-1", "None"}

\* models.convert_node_status; the last branch raises ValueError
convert_node_statusPendingQuitStopped(cs) ==
    CASE cs \in {"QUIT", "PENDING_QUIT"} -> "Stopped"
      [] cs \in {"AVAILABLE", "BUSY"} -> "Running"
      [] cs = "PAUSED" -> "Paused"
      [] cs = "PENDING_PAUSE" -> "PendingPause"
      [] OTHER -> "ValueError"

convert_node_status(cs) ==
    CASE cs = "QUIT" -> "Stopped"
      [] cs \in {"AVAILABLE", "BUSY"} -> "Running"
      [] cs = "PAUSED" -> "Paused"
      [] cs = "PENDING_PAUSE" -> "PendingPause"
      [] cs = "PENDING_QUIT" -> "PendingStop"
      [] OTHER -> "ValueError"

\* the relay: how the status of the node moves on the remote side (join,
\* task assigned and finished, quit, pause, resume, slashing)
ChainMoves ==
    { <<"QUIT", "AVAILABLE">>, <<"AVAILABLE", "BUSY">>,
      <<"BUSY", "AVAILABLE">>, <<"AVAILABLE", "QUIT">>,
      <<"AVAILABLE", "PAUSED">>, <<"BUSY", "PENDING_QUIT">>,
      <<"BUSY", "PENDING_PAUSE">>, <<"BUSY", "QUIT">>,
      <<"PENDING_QUIT", "QUIT">>, <<"PENDING_PAUSE", "PAUSED">>,
      <<"PAUSED", "AVAILABLE">>, <<"PAUSED", "QUIT">> }

\* ----------------------------------------------------- state cache
\* TxState(status, message); a status written without a message has none
TxState(st, msg) == [status |-> st, message |-> msg]

\* --------------------------------------------- NodeStateManager
Ops == {"start", "stop", "pause", "resume"}

\* the first assert of start (198-200), stop (237-239), pause (262-264)
\* and resume (287-289): the cached node status the operation asks for
RequiredResumeRunning(op) ==
    CASE op = "start" -> "Stopped"
      [] op \in {"stop", "pause", "resume"} -> "Running"

Required(op) ==
    CASE op = "start" -> "Stopped"
      [] op \in {"stop", "pause"} -> "Running"
      [] op = "resume" -> "Paused"

\* the message of that assert
NodeMsg(op) ==
    IF op = "start" THEN "Cannot start node. Node is not stopped."
    ELSE "Cannot stop node. Node is not running."

PendingMsg == "Cannot start node. Last transaction is in pending."
BalanceMsg == "Node token balance is not enough to join."
WaitRunningMsg == "Node status on chain is not running."
WaitStopMsg == "Node status on chain is not stopped or pending."
WaitPauseMsg == "Node status on chain is not paused or pending"
RelayMsg == "relay error"
OtherMsg == "unexpected error"

\* _wrap_tx_error, line 116: the exceptions recorded in the cache
TranslatedCancel(k) == k \in {"relay", "assert", "value", "cancel"}

TranslatedAll(k) == TRUE

TranslatedOnlyRelay(k) == k = "relay"

Translated(k) == k \in {"relay", "assert", "value"}

\* _wrap_tx_error, lines 110-124: the operation of call c raises an
\* exception of class k with message m.  RelayError, AssertionError and
\* ValueError are recorded as TxState(Error, str(e)); every exception is
\* raised again.
Raise(c, k, m) ==
    /\ cpc' = [cpc EXCEPT ![c] = "idle"]
    /\ cop' = [cop EXCEPT ![c] = "none"]
    /\ cpending' = [cpending EXCEPT ![c] = FALSE]
    /\ tx_state' = IF Translated(k) THEN TxState("Error", m) ELSE tx_state

\* what node_info carries as qos_score, staking_score and prob_weight
\* (one value stands for the three), and a cache that holds none yet
MaxScore == 1
Scores == 0..MaxScore
NoScore == -1

InitNode ==
    /\ chain_status = "QUIT"
    /\ node_state = "Init"
    /\ tx_state = TxState("None", "")
    /\ cop = [c \in Calls |-> "none"]
    /\ cpc = [c \in Calls |-> "idle"]
    /\ cpending = [c \in Calls |-> FALSE]
    /\ sync_pc = "off"
    /\ chain_score = 0
    /\ score_state = NoScore
    /\ try_pc = "off"
    /\ try_res = "none"
    /\ stop_pc = "off"
    /\ stop_res = "none"
    /\ csample = [c \in Calls |-> "none"]
    /\ sync_sample = "none"

\* the status of the node changes on the relay
ChainStep ==
    /\ \E mv \in ChainMoves : mv[1] = chain_status /\ chain_status' = mv[2]
    /\ UNCHANGED <<node_state, tx_state, cop, cpc, cpending, sync_pc>>
    /\ UNCHANGED notNode

\* start / stop / pause / resume up to the first call of the relay:
\* the two reads of the cache and the two asserts, then get_balance
\* (start) or the transaction is sent.  Caller c is one of the NumCalls
\* callers that can be at work at a time; a caller that is through makes
\* its next call.
LifecycleCall(c, op) ==
    /\ cpc[c] = "idle"
    /\ \A u \in Calls : u < c => cpc[u] # "idle"
    /\ IF node_state # Required(op)
       THEN Raise(c, "assert", NodeMsg(op))
       ELSE IF tx_state.status = "Pending"
       THEN Raise(c, "assert", PendingMsg)
       ELSE /\ cpc' = [cpc EXCEPT ![c] =
                          IF op = "start" THEN "balance" ELSE "tx"]
            /\ cop' = [cop EXCEPT ![c] = op]
            /\ UNCHANGED <<tx_state, cpending>>
    /\ UNCHANGED <<chain_status, node_state, sync_pc>>
    /\ UNCHANGED notNode

\* what relay.get_balance may return, in ether
Balances == {staking_amount - 1, staking_amount, staking_amount + 1}

\* start, line 207: the balance does not cover the staking amount (both
\* sides are in wei in the code, the same multiple of the values here)
LowBalanceInverted(b) == b > staking_amount

LowBalance(b) == b < staking_amount

\* start, lines 206-212: relay.get_balance returned b; with enough
\* balance the cached models are loaded and node_join is sent
GotBalance(c, b) ==
    /\ cpc[c] = "balance"
    /\ IF LowBalance(b)
       THEN Raise(c, "value", BalanceMsg)
       ELSE /\ cpc' = [cpc EXCEPT ![c] = "tx"]
            /\ UNCHANGED <<cop, tx_state, cpending>>
    /\ UNCHANGED <<chain_status, node_state, sync_pc>>
    /\ UNCHANGED notNode

\* lines 212-219, 244-245, 269-270, 294-295: the relay accepted the
\* transaction; TxStatus becomes Pending and the operation returns `wait`
TxOk(c) ==
    /\ cpc[c] = "tx"
    /\ tx_state' = TxState("Pending", "")
    /\ cpc' = [cpc EXCEPT ![c] = "accepted"]
    /\ UNCHANGED <<chain_status, node_state, cop, cpending, sync_pc>>
    /\ UNCHANGED notNode

\* the call of the relay (or load_all) that caller c is waiting for, or
\* the first poll of the `wait` it invokes, raises a RelayError or an
\* exception of another class, or the caller's task is cancelled while it
\* is suspended there (lines 112-115: the cancellation is raised again)
CallFail(c, k) ==
    /\ cpc[c] \in {"balance", "tx", "accepted", "poll"}
    /\ Raise(c, k, CASE k = "relay" -> RelayMsg
                     [] k = "cancel" -> ""
                     [] OTHER -> OtherMsg)
    /\ UNCHANGED <<chain_status, node_state, sync_pc>>
    /\ UNCHANGED notNode

\* the local statuses a wait accepts, the one that ends it, its message
WaitAcceptsLoose(op) ==
    CASE op \in {"start", "resume"} -> {"Running", "Stopped", "Paused"}
      [] op = "stop" -> {"Stopped", "PendingStop"}
      [] op = "pause" -> {"Paused", "PendingPause"}

WaitAccepts(op) ==
    CASE op \in {"start", "resume"} -> {"Running"}
      [] op = "stop" -> {"Stopped", "PendingStop"}
      [] op = "pause" -> {"Paused", "PendingPause"}

\* lines 61 and 77 with the break taken on the pending status
WaitFinalPending(op) ==
    CASE op \in {"start", "resume"} -> "Running"
      [] op = "stop" -> "PendingStop"
      [] op = "pause" -> "PendingPause"

WaitFinal(op) ==
    CASE op \in {"start", "resume"} -> "Running"
      [] op = "stop" -> "Stopped"
      [] op = "pause" -> "Paused"

WaitMsg(op) ==
    CASE op \in {"start", "resume"} -> WaitRunningMsg
      [] op = "stop" -> WaitStopMsg
      [] op = "pause" -> WaitPauseMsg

\* lines 60 and 76: `pending = False` after the first write of Success
PendingStays == TRUE

PendingCleared == FALSE

\* lines 41-46, 49-62, 65-78: the caller invokes the `wait` it was given,
\* after any delay, and the relay answers its first poll, or the relay
\* answers a later poll of _wait_for_stop / _wait_for_pause.  The status
\* is mapped, asserted and written to the cache; TxStatus is written
\* while the local `pending` is set (lines 49 and 65 set it before the
\* first poll).  _wait_for_running ends after its poll, the two others
\* poll again unless they saw the final status.
PollEffect(c, status) ==
    LET local_status == convert_node_status(status)
        pending == cpc[c] = "accepted" \/ cpending[c]
    IN
    IF local_status \notin WaitAccepts(cop[c])
    THEN /\ Raise(c, "assert", WaitMsg(cop[c]))
         /\ UNCHANGED node_state
    ELSE /\ node_state' = local_status
         /\ tx_state' = IF cop[c] \in {"start", "resume"} \/ pending
                        THEN TxState("Success", "") ELSE tx_state
         /\ IF local_status = WaitFinal(cop[c])
            THEN /\ cpc' = [cpc EXCEPT ![c] = "idle"]
                 /\ cop' = [cop EXCEPT ![c] = "none"]
                 /\ cpending' = [cpending EXCEPT ![c] = FALSE]
            ELSE /\ cpc' = [cpc EXCEPT ![c] = "poll"]
                 /\ cop' = cop
                 /\ cpending' = [cpending EXCEPT ![c] = PendingCleared]

\* a poll whose answer is processed as soon as the relay gives it
Poll(c) ==
    /\ cpc[c] \in {"accepted", "poll"}
    /\ PollEffect(c, chain_status)
    /\ UNCHANGED <<chain_status, sync_pc>>
    /\ UNCHANGED notNode

\* start_sync, lines 81-88: the loop starts and sends its first request
SyncStart ==
    /\ sync_pc = "off"
    /\ sync_pc' = "poll"
    /\ UNCHANGED <<chain_status, node_state, tx_state, cop, cpc, cpending>>
    /\ UNCHANGED notNode

\* the scores of the node change on the relay
ScoreStep ==
    /\ \E sc \in Scores \ {chain_score} : chain_score' = sc
    /\ UNCHANGED <<nodeVars, score_state, poolVars, nonceVars, tryVars,
                   stopVars, raceVars, keyVars, initVars>>

\* line 99: the NodeScoreState of node_info is written in every tick
ScoreWrittenOnChange(local_status) ==
    IF local_status # node_state THEN chain_score ELSE score_state

ScoreWritten(local_status) == chain_score

\* lines 88-100, one tick: the relay answers with the status and the
\* scores of the node, the cached status is written when it differs from
\* the mapped one, the scores are written, and after the sleep the next
\* request is sent
SyncTick ==
    /\ sync_pc = "poll"
    /\ LET local_status == convert_node_status(chain_status) IN
       /\ node_state' = IF local_status # node_state THEN local_status
                        ELSE node_state
       /\ score_state' = ScoreWritten(local_status)
    /\ UNCHANGED <<chain_status, tx_state, cop, cpc, cpending, sync_pc>>
    /\ UNCHANGED <<poolVars, nonceVars, chain_score, tryVars, stopVars,
                   raceVars, keyVars, initVars>>

\* line 88 raises: nothing in start_sync catches it, the loop is left
\* and line 102 clears _cancel_scope
SyncFail ==
    /\ sync_pc = "poll"
    /\ sync_pc' = "off"
    /\ UNCHANGED <<chain_status, node_state, tx_state, cop, cpc, cpending>>
    /\ UNCHANGED notNode

\* ------------------------------------------------- stop_sync
\* lines 104-106: the scope of a running loop is cancelled, once; with no
\* loop (_cancel_scope is None) or a scope already cancelled nothing is done
StopSync ==
    /\ sync_pc' = IF sync_pc = "poll" THEN "cancelled" ELSE sync_pc
    /\ UNCHANGED <<chain_status, node_state, tx_state, cop, cpc, cpending>>
    /\ UNCHANGED notNode

\* lines 101-102: the finally of start_sync clears _cancel_scope
CancelScopeKept == "cancelled"

CancelScopeCleared == "off"

\* the cancellation reaches the loop where it is suspended (the request of
\* line 88 or the sleep of line 100): the CancelScope is left and
\* start_sync returns
SyncCancelled ==
    /\ sync_pc = "cancelled"
    /\ sync_pc' = CancelScopeCleared
    /\ UNCHANGED <<chain_status, node_state, tx_state, cop, cpc, cpending>>
    /\ UNCHANGED notNode

\* ------------------------------------------------- try_start
\* line 133: the remote statuses of a node that has joined
JoinedNoPending == {"AVAILABLE", "BUSY"}

Joined == {"AVAILABLE", "BUSY", "PENDING_PAUSE", "PENDING_QUIT"}

notTry == <<poolVars, nonceVars, scoreVars, stopVars, raceVars, keyVars, initVars, cop, cpc,
            cpending, sync_pc, chain_status>>

\* try_start is called and sends node_get_node_info (line 131)
TryStartCall ==
    /\ try_pc = "off"
    /\ try_pc' = "info"
    /\ try_res' = "none"
    /\ UNCHANGED <<node_state, tx_state>>
    /\ UNCHANGED notTry

\* lines 132-165: the relay answers with the status of the node.  For a
\* node that has joined the mapped status is written and try_start
\* returns; for QUIT get_balance is sent, for PAUSED node_resume.
TryInfo ==
    /\ try_pc = "info"
    /\ IF chain_status \in Joined
       THEN /\ node_state' = convert_node_status(chain_status)
            /\ try_pc' = "off"
            /\ try_res' = "ok"
       ELSE /\ try_pc' = IF chain_status = "QUIT" THEN "balance"
                         ELSE "resume"
            /\ UNCHANGED <<node_state, try_res>>
    /\ UNCHANGED tx_state
    /\ UNCHANGED notTry

\* lines 145-150: relay.get_balance returned b; a low balance raises
\* ValueError, else the cached models are loaded and node_join is sent
TryBalance(b) ==
    /\ try_pc = "balance"
    /\ IF LowBalance(b)
       THEN try_pc' = "off" /\ try_res' = "value"
       ELSE try_pc' = "join" /\ try_res' = try_res
    /\ UNCHANGED <<node_state, tx_state>>
    /\ UNCHANGED notTry

\* lines 150-162: the relay accepted node_join or node_resume;
\* _wait_for_running sends its poll
TryTxOk ==
    /\ try_pc \in {"join", "resume"}
    /\ try_pc' = "wait"
    /\ UNCHANGED <<node_state, tx_state, try_res>>
    /\ UNCHANGED notTry

\* lines 159 and 162, _wait_for_running (40-46): the one poll of the wait
TryWait ==
    /\ try_pc = "wait"
    /\ try_pc' = "off"
    /\ LET local_status == convert_node_status(chain_status) IN
       IF local_status \in WaitAccepts("start")
       THEN /\ node_state' = local_status
            /\ tx_state' = TxState("Success", "")
            /\ try_res' = "ok"
       ELSE /\ try_res' = "assert"
            /\ UNCHANGED <<node_state, tx_state>>
    /\ UNCHANGED notTry

\* a call of the relay (or load_all) made by try_start raises; try_start
\* is not inside _wrap_tx_error and catches nothing
TryFail ==
    /\ try_pc \in {"info", "balance", "join", "resume", "wait"}
    /\ try_pc' = "off"
    /\ try_res' = "relay"
    /\ UNCHANGED <<node_state, tx_state>>
    /\ UNCHANGED notTry

\* ------------------------------------------------- try_stop
notStop == <<poolVars, nonceVars, scoreVars, tryVars, raceVars, keyVars, initVars, cop, cpc,
             cpending, sync_pc, chain_status>>

\* try_stop is called and sends node_get_node_info (line 169)
TryStopCall ==
    /\ stop_pc = "off"
    /\ stop_pc' = "info"
    /\ stop_res' = "none"
    /\ UNCHANGED <<node_state, tx_state>>
    /\ UNCHANGED notStop

\* lines 170-185: the relay answers with the status of the node.  For
\* AVAILABLE node_quit is sent; for QUIT and for every other status a
\* line is logged and try_stop returns.
TryStopInfo ==
    /\ stop_pc = "info"
    /\ IF chain_status = "AVAILABLE"
       THEN stop_pc' = "quit" /\ stop_res' = stop_res
       ELSE stop_pc' = "off" /\ stop_res' = "ok"
    /\ UNCHANGED <<node_state, tx_state>>
    /\ UNCHANGED notStop

\* lines 172-175: the relay accepted node_quit; TxStatus is set to
\* Pending and _wait_for_stop sends its first poll
TryStopTxOk ==
    /\ stop_pc = "quit"
    /\ tx_state' = TxState("Pending", "")
    /\ stop_pc' = "wait"
    /\ UNCHANGED <<node_state, stop_res>>
    /\ UNCHANGED notStop

\* line 175, _wait_for_stop (48-62), and line 178: one poll of the wait
\* (the first with the local `pending` set).  The mapped status is
\* asserted and written; at Stopped the wait ends, try_stop writes
\* Success and returns.
TryStopPoll ==
    /\ stop_pc \in {"wait", "poll"}
    /\ LET local_status == convert_node_status(chain_status) IN
       IF local_status \notin WaitAccepts("stop")
       THEN /\ stop_pc' = "off"
            /\ stop_res' = "assert"
            /\ UNCHANGED <<node_state, tx_state>>
       ELSE /\ node_state' = local_status
            /\ IF local_status = WaitFinal("stop")
               THEN /\ tx_state' = TxState("Success", "")
                    /\ stop_pc' = "off"
                    /\ stop_res' = "ok"
               ELSE /\ tx_state' = IF stop_pc = "wait"
                                   THEN TxState("Success", "") ELSE tx_state
                    /\ stop_pc' = "poll"
                    /\ stop_res' = stop_res
    /\ UNCHANGED notStop

\* a call of the relay made by try_stop raises; try_stop is not inside
\* _wrap_tx_error and catches nothing
TryStopFail ==
    /\ stop_pc \in {"info", "quit", "wait", "poll"}
    /\ stop_pc' = "off"
    /\ stop_res' = "relay"
    /\ UNCHANGED <<node_state, tx_state>>
    /\ UNCHANGED notStop

\* ------------------------------------- the relay's answer and its use
\* The answer of node_get_node_info reaches a task some time before the
\* task runs again and writes what it derived from it; the status on the
\* relay may have moved in between.
notRace == <<poolVars, nonceVars, scoreVars, tryVars, stopVars, keyVars, initVars>>

\* lines 34-38 in a poll of a wait: the relay answers
PollSample(c) ==
    /\ cpc[c] \in {"accepted", "poll"}
    /\ csample[c] = "none"
    /\ csample' = [csample EXCEPT ![c] = chain_status]
    /\ UNCHANGED <<nodeVars, sync_sample>>
    /\ UNCHANGED notRace

\* lines 41-46, 52-62, 68-78: the wait runs on with the answer it got
PollWrite(c) ==
    /\ cpc[c] \in {"accepted", "poll"}
    /\ csample[c] # "none"
    /\ PollEffect(c, csample[c])
    /\ csample' = [csample EXCEPT ![c] = "none"]
    /\ UNCHANGED <<chain_status, sync_pc, sync_sample>>
    /\ UNCHANGED notRace

\* the relay call that caller c is suspended in raises, or c is cancelled
CallRaises(c, k) ==
    /\ csample[c] = "none"
    /\ CallFail(c, k)

\* line 88: the relay answers the request of the tick
TickSample ==
    /\ sync_pc = "poll"
    /\ sync_sample = "none"
    /\ sync_sample' = chain_status
    /\ UNCHANGED <<nodeVars, csample>>
    /\ UNCHANGED notRace

\* a tick that writes the status only into a cache that holds none
TickWritesFirst(local_status) ==
    IF node_state = "Init" THEN local_status ELSE node_state

\* lines 90-92: the status is written when it differs from the cached one
TickWrites(local_status) ==
    IF local_status # node_state THEN local_status ELSE node_state

\* lines 90-100: the loop runs on with the answer it got: status, scores,
\* sleep, and the next request
TickWrite ==
    /\ sync_pc = "poll"
    /\ sync_sample # "none"
    /\ LET local_status == convert_node_status(sync_sample) IN
       /\ node_state' = TickWrites(local_status)
       /\ score_state' = ScoreWritten(local_status)
    /\ sync_sample' = "none"
    /\ UNCHANGED <<chain_status, tx_state, cop, cpc, cpending, sync_pc,
                   csample>>
    /\ UNCHANGED <<poolVars, nonceVars, chain_score, tryVars, stopVars,
                   keyVars, initVars>>

\* line 88 raises
TickFail ==
    /\ sync_sample = "none"
    /\ SyncFail

\* the caller whose wait races with the sync loop
Racer == CHOOSE c \in Calls : \A d \in Calls : c <= d

RaceNext ==
    \/ ChainStep
    \/ \E op \in Ops : LifecycleCall(Racer, op)
    \/ \E b \in Balances : GotBalance(Racer, b)
    \/ TxOk(Racer)
    \/ \E k \in {"relay", "other", "cancel"} : CallRaises(Racer, k)
    \/ PollSample(Racer)
    \/ PollWrite(Racer)
    \/ SyncStart
    \/ TickSample
    \/ TickWrite
    \/ TickFail

\* ------------------------------------ config: wait_privkey, set_privkey
Waiters == 1..NumWaiters
Setters == (NumWaiters + 1)..(NumWaiters + NumSetters)
KeyProcs == Waiters \cup Setters

\* the keys a caller may pass to set_privkey or the key file may hold
Keys == {"", "key1", "key2"}

notKey == <<poolVars, nonceVars, nodeVars, scoreVars, tryVars, stopVars,
            raceVars,
           initVars>>

\* contracts/__init__.py lines 65-66: a Contracts object as constructed,
\* init() not called yet
InitContracts ==
    /\ init_pc = "off"
    /\ initialized = FALSE

\* the module as loaded: the key is k (empty, or read from the key file
\* by the getter of lines 154-160), nobody has called yet
InitKey(k) ==
    /\ privkey = k
    /\ klock = [o |-> NoProc, q |-> <<>>]
    /\ kwaiters = <<>>
    /\ kpc = [p \in KeyProcs |-> "start"]
    /\ kval = [p \in Setters |-> ""]
    /\ kret = [p \in Waiters |-> ""]
    /\ kparked = {}

\* line 303: wait_privkey enters the condition.  The callers run the same
\* code, so they are numbered in the order of their calls.
WaitPrivkeyCall(w) ==
    /\ kpc[w] = "start"
    /\ \A u \in Waiters : u < w => kpc[u] # "start"
    /\ klock' = Acquired(klock, w)
    /\ kpc' = [kpc EXCEPT ![w] = "locked"]
    /\ UNCHANGED <<privkey, kwaiters, kval, kret, kparked>>
    /\ UNCHANGED notKey

\* line 304 with a key of any length taken for a key
KeyEmptyNever(k) == FALSE

\* line 304: the key is empty
KeyEmpty(k) == Len(k) = 0

\* lines 304-306 with the lock held: wait() while the key is empty (the
\* lock is released), else return the key
WaitPrivkeyLocked(w) ==
    /\ kpc[w] = "locked"
    /\ klock.o = w
    /\ klock' = Released(klock)
    /\ IF KeyEmpty(privkey)
       THEN /\ kwaiters' = kwaiters \o <<w>>
            /\ kpc' = [kpc EXCEPT ![w] = "parked"]
            /\ kparked' = kparked \cup {w}
            /\ UNCHANGED kret
       ELSE /\ kret' = [kret EXCEPT ![w] = privkey]
            /\ kpc' = [kpc EXCEPT ![w] = "done"]
            /\ UNCHANGED <<kwaiters, kparked>>
    /\ UNCHANGED <<privkey, kval>>
    /\ UNCHANGED notKey

\* Condition.wait() after notify_all: the task queues for the lock again
WaitPrivkeyWake(w) ==
    /\ kpc[w] = "parked"
    /\ w \notin SeqSet(kwaiters)
    /\ klock' = Acquired(klock, w)
    /\ kpc' = [kpc EXCEPT ![w] = "locked"]
    /\ UNCHANGED <<privkey, kwaiters, kval, kret, kparked>>
    /\ UNCHANGED notKey

\* line 312: set_privkey(k) enters the condition; the callers are numbered
\* in the order of their calls
SetPrivkeyCall(s, k) ==
    /\ kpc[s] = "start"
    /\ \A u \in Setters : u < s => kpc[u] # "start"
    /\ kval' = [kval EXCEPT ![s] = k]
    /\ klock' = Acquired(klock, s)
    /\ kpc' = [kpc EXCEPT ![s] = "locked"]
    /\ UNCHANGED <<privkey, kwaiters, kret, kparked>>
    /\ UNCHANGED notKey

\* lines 313-316 with the lock held: the key is stored, every parked task
\* is notified, the lock is released and the key is dumped to its file
SetPrivkeyLocked(s) ==
    /\ kpc[s] = "locked"
    /\ klock.o = s
    /\ privkey' = kval[s]
    /\ kwaiters' = NotifyAll(kwaiters)
    /\ klock' = Released(klock)
    /\ kpc' = [kpc EXCEPT ![s] = "done"]
    /\ UNCHANGED <<kval, kret, kparked>>
    /\ UNCHANGED notKey

\* ------------------------------------------------------ specifications
\* the pool with no sender at work
Init == InitPool /\ InitNonce /\ InitNode /\ InitKey("") /\ InitContracts /\ remote = 0

\* the senders on an open pool with no caller of get
NonceInit ==
    InitPool /\ InitNonce /\ InitNode /\ InitKey("") /\ InitContracts /\ provider_type = "HTTP"

\* the node state manager, with no caller of the pool
NodeInit ==
    /\ InitPool /\ InitNonce /\ InitNode /\ InitKey("") /\ InitContracts
    /\ provider_type = "HTTP" /\ remote = 0

PoolNext ==
    \/ \E t \in Tasks : GetCall(t)
    \/ \E t \in Tasks : GetLocked(t)
    \/ \E t \in Tasks : NewW3Ok(t)
    \/ \E t \in Tasks : NewW3Fail(t)
    \/ \E t \in Tasks : CondWake(t)
    \/ \E t \in Tasks : GetRelocked(t)
    \/ \E t \in Tasks : ScopeExit(t)
    \/ \E t \in Tasks : OnGuardIdle(t)
    \/ \E t \in Tasks : IdleExpire(t)
    \/ \E p \in Procs : GuardCloseTorn(p)
    \/ \E p \in Procs : OnGuardClose(p)
    \/ \E p \in Procs : CloseExpire(p)
    \/ CloseCall
    \/ CloseLocked

NonceNext ==
    \/ \E s \in Senders, k \in {"scoped", "transfer"} : WithNonceCall(s, k)
    \/ \E s \in Senders : NonceQueueCancel(s)
    \/ \E s \in Senders : NonceLocked(s)
    \/ \E s \in Senders : FetchOk(s)
    \/ \E s \in Senders : FetchFail(s)
    \/ \E s \in Senders, o \in Outcomes : ScopedSubmit(s, o)
    \/ \E s \in Senders, o \in Outcomes : TransferSubmit(s, o)

NodeNext ==
    \/ ChainStep
    \/ \E c \in Calls, op \in Ops : LifecycleCall(c, op)
    \/ \E c \in Calls, b \in Balances : GotBalance(c, b)
    \/ \E c \in Calls : TxOk(c)
    \/ \E c \in Calls, k \in {"relay", "other"} : CallFail(c, k)
    \/ \E c \in Calls : Poll(c)
    \/ SyncStart
    \/ SyncTick
    \/ SyncFail

\* what the event loop guarantees: while some task can run, one of them
\* does.  The expiry of a move_on_after window and the calls made by the
\* callers of the pool are not guaranteed to happen.
Progress(p) ==
    \/ GetLocked(p) \/ NewW3Ok(p) \/ NewW3Fail(p) \/ CondWake(p)
    \/ GetRelocked(p) \/ OnGuardIdle(p)
    \/ GuardCloseTorn(p) \/ OnGuardClose(p)
    \/ (p = Closer /\ CloseLocked)

\* the pool and its guards
Spec == Init /\ [][PoolNext]_vars

\* the nonce allocator and its senders
SpecNonce == NonceInit /\ [][NonceNext]_vars

\* the node state manager, the relay and the sync loop
SpecNode == NodeInit /\ [][NodeNext]_vars

\* the pool under the fairness of the event loop
SpecLive == Spec /\ WF_vars(\E p \in Procs : Progress(p))

\* what the event loop and the node guarantee to a sender: the holder of
\* the nonce lock runs, and a fetch or a submission comes to an end
NonceProgress(s) ==
    \/ NonceLocked(s) \/ FetchOk(s) \/ FetchFail(s)
    \/ \E o \in Outcomes : ScopedSubmit(s, o)

\* the nonce allocator under that fairness
SpecNonceLive == SpecNonce /\ WF_vars(\E s \in Senders : NonceProgress(s))

\* ------------------------------------------------------------- claims
Holding(t) == pc[t] = "using"
Returns(t) == pc[t] # "using" /\ pc'[t] = "using"

\* C1: in every interleaving of get, release, guard close and pool close
\* the guard table never holds more guards than the pool size.
C1_Capacity == Cardinality(guards) <= pool_size

\* the table is full again after an eviction made room for a new guard
C1_Witness == Cardinality(guards) = pool_size /\ next_id - 1 > pool_size

\* C2: an id returned by get is not returned again before on_guard_idle
\* has put it back in the idle queue, and no two callers hold one guard.
C2_NoDoubleHandout ==
    /\ [](\A t, u \in Tasks : (t # u /\ cur[t] # NoGuard) => cur[t] # cur[u])
    /\ [](out \cap SeqSet(idle_pool) = {})
    /\ [][\A t \in Tasks : Returns(t) => cur'[t] \notin out]_vars

\* a released guard is in use again
C2_Witness == \E t \in Tasks : Holding(t) /\ cur[t] \in released

\* C3: while pool_size guards are checked out no get returns a guard; a
\* caller that had to wait holds a guard that a holder released; before
\* any release or eviction at most pool_size callers hold a guard.
C3_BlocksWhenExhausted ==
    /\ [][(Len(idle_pool) = 0 /\ Cardinality(guards) = pool_size)
            => \A t \in Tasks : ~Returns(t)]_vars
    /\ [](\A t \in Tasks : (Holding(t) /\ waited[t]) => cur[t] \in released)
    /\ []((released = {} /\ Cardinality(guards) = next_id - 1)
            => /\ Cardinality({t \in Tasks : Holding(t)}) <= pool_size
               /\ \A t \in Tasks : Holding(t) => ~waited[t])

\* the third caller holds a guard after it waited for a release
C3_Witness == \E t \in Tasks : Holding(t) /\ waited[t] /\ t > pool_size

\* C4: once the pool is marked closed no get creates or returns a guard.
C4_ClosedNoHandout ==
    [][closed => /\ \A t \in Tasks : ~Returns(t)
                 /\ guards' \subseteq guards]_vars

\* C5: when close() has returned the guard table and the idle queue are
\* empty and no caller is left with a guard of the table.
C5_CloseDrains ==
    pc[Closer] = "done"
        => /\ guards = {}
           /\ idle_pool = <<>>
           /\ \A t \in Tasks : cur[t] \notin guards

\* C6: after close() no caller stays parked in get(): every caller that
\* waited for an idle guard is woken, leaves get() and fails with the
\* pool-closed error.
InWait(t) == pc[t] \in {"cond_wait", "get_relocked"}

C6_WaitersFail ==
    /\ [](closed => condQ = <<>>)
    /\ [][\A t \in Tasks :
            (closed /\ InWait(t) /\ ~InWait(t)')
                => (pc'[t] = "done" /\ result'[t] = "pool_closed")]_vars
    /\ closed ~> (\A t \in Tasks : ~InWait(t))

\* a caller that was parked has failed with the pool-closed error
C6_Witness ==
    \E t \in Tasks : pc[t] = "done" /\ result[t] = "pool_closed" /\ waited[t]


\* C7: while every fetch, scope and send has succeeded the k nonces yielded
\* so far are remote0, ..., remote0 + k - 1, each yielded once, and at
\* most one sender is inside a with_nonce scope.
InScope(s) == spc[s] \in {"fetching", "in_scope"}
Yielded == {s \in Senders : got[s] # NoneNonce}

C7_NonceSequence ==
    /\ Cardinality({s \in Senders : InScope(s)}) <= 1
    /\ ~failed =>
         /\ {got[s] : s \in Yielded}
               = remote0 .. (remote0 + Cardinality(Yielded) - 1)
         /\ \A s, u \in Yielded : s # u => got[s] # got[u]

\* every sender got its nonce and succeeded, with scoped senders and
\* transfers among them
C7_Witness ==
    /\ \A s \in Senders : outcome[s] = "ok"
    /\ \E s \in Senders : kind[s] = "scoped"
    /\ \E s \in Senders : kind[s] = "transfer"

\* C8: after a submission failed with a nonce-pattern error the cached
\* nonce is dropped, so that the next acquisition fetches it again.
C8_StaleInvalidates == stale => nonce = NoneNonce

\* C9: the cache advanced for the nonce of a sender if and only if the
\* submission with that nonce succeeded.
C9_AdvanceIffSuccess ==
    \A s \in Senders :
        /\ outcome[s] = "failed" => ~advanced[s]
        /\ outcome[s] = "ok" => advanced[s]

\* C10: a guard whose scope ended with ConnectionClosed is, once its
\* close() calls have returned, out of the guard table; it is never in
\* the idle queue and no later get returns it.
C10_BrokenEvicted ==
    /\ [](\A g \in broken :
            /\ (\A p \in Procs : cur[p] # g) => g \notin guards
            /\ g \notin SeqSet(idle_pool))
    /\ [][\A t \in Tasks : Returns(t) => cur'[t] \notin broken]_vars

\* C11: an operation whose guard scope ended with ConnectionClosed fails:
\* the error reaches the caller of the operation, and the guard is out of
\* the guard table.
C11_BrokenScopeRaises ==
    \A t \in Tasks : pc[t] = "done" => result[t] # "swallowed"

\* C12: a guard of the table is in the idle queue or held by a caller
\* whose scope is still open or is exiting; a scope that has exited leaves
\* its guard idle or evicted.  Stated for the guards whose scope did not
\* end with ConnectionClosed (C10 is about those).
C12_NoGuardLeftOut ==
    \A g \in guards \ broken :
        g \in SeqSet(idle_pool) \/ \E p \in Procs : cur[p] = g

\* C13: the nonce lock is owned only by a sender that is inside
\* with_nonce, whichever way the earlier scopes ended; every sender that
\* queued for the lock gets it (or is cancelled in the queue); a scope
\* that ends with a cancellation leaves the cached nonce as it was.
InsideWithNonce(s) == spc[s] \in {"nonce_locked", "fetching", "in_scope"}

C13_LockReleased ==
    /\ [](nonce_lock # NoProc => InsideWithNonce(nonce_lock))
    /\ [](nonce_lock = NoProc => nonceQ = <<>>)
    /\ [][\A s \in Senders : ScopedSubmit(s, "cancelled") => nonce' = nonce]_vars
    /\ \A s \in Senders :
          (spc[s] = "nonce_locked") ~> (spc[s] # "nonce_locked")

\* a sender entered its scope after the scopes before it had ended with a
\* failed fetch and with an error or a cancellation of the submission
C13_Witness ==
    \E s, u, v \in Senders :
        /\ spc[s] = "in_scope"
        /\ spc[u] = "done" /\ got[u] = NoneNonce /\ kind[u] # "none"
        /\ spc[v] = "done" /\ got[v] # NoneNonce /\ outcome[v] = "failed"
        /\ kind[v] = "scoped"


\* C14: start, stop, pause and resume invoke no relay method when the
\* precondition on the cached state fails (stop and pause: NodeStatus is
\* not Running; start: not Stopped; resume: not Paused; all four: TxStatus
\* is Pending): the call ends at its assert, and the assertion error is
\* what _wrap_tx_error records.
PreconditionFails(op) ==
    \/ op \in {"stop", "pause"} /\ node_state # "Running"
    \/ op = "start" /\ node_state # "Stopped"
    \/ op = "resume" /\ node_state # "Paused"
    \/ tx_state.status = "Pending"

C14_NoRelayOnFailedPrecondition ==
    [][\A c \in Calls, op \in Ops :
          LifecycleCall(c, op) /\ PreconditionFails(op)
          => /\ cpc'[c] = "idle"
             /\ tx_state'.status = "Error"
             /\ tx_state'.message \in {NodeMsg(op), PendingMsg}]_vars

\* a call was rejected for the pending transaction of a caller that has
\* not finished its wait
C14_Witness ==
    /\ tx_state = TxState("Error", PendingMsg)
    /\ \E c \in Calls : cpc[c] \in {"accepted", "poll"}


\* C15: while a transaction accepted by start, stop, pause or resume is
\* pending (the caller has not finished the `wait` it was given), every
\* further start, stop, pause or resume ends at its asserts, without a
\* call of the relay, however many of them are made one after another.
WaitOutstanding == \E u \in Calls : cpc[u] \in {"accepted", "poll"}

C15_PendingRejectsAll ==
    [][\A c \in Calls, op \in Ops :
          LifecycleCall(c, op) /\ WaitOutstanding => cpc'[c] = "idle"]_vars


\* C16, as stated: when the balance the relay reports is below the staking
\* amount, start ends there, node_join is not called and the cached
\* TxStatus is what it was.
C16_LowBalanceLeavesTx ==
    [][\A c \in Calls, b \in Balances :
          GotBalance(c, b) /\ b < staking_amount
          => cpc'[c] = "idle" /\ tx_state' = tx_state]_vars

\* C16, amended: when the balance the relay reports is below the staking
\* amount, start fails with the insufficient-balance error, node_join is
\* not called, and the cached TxStatus is not Pending: it is Error with the
\* message of that error.
C16_LowBalanceRecorded ==
    [][\A c \in Calls, b \in Balances :
          GotBalance(c, b) /\ b < staking_amount
          => /\ cpc'[c] = "idle"
             /\ tx_state' = TxState("Error", BalanceMsg)]_vars

\* a start has failed on its balance
C16_Witness == tx_state = TxState("Error", BalanceMsg)


\* C17: the wait of start (of resume) keeps polling until the status of
\* the relay maps to Running: a poll that finds the status still QUIT
\* (still PAUSED) leaves the wait polling and TxStatus as it was.
StillBefore(c) ==
    \/ cop[c] = "start" /\ chain_status = "QUIT"
    \/ cop[c] = "resume" /\ chain_status = "PAUSED"

C17_WaitKeepsPolling ==
    [][\A c \in Calls :
          Poll(c) /\ StillBefore(c)
          => cpc'[c] \in {"accepted", "poll"} /\ tx_state' = tx_state]_vars


\* C18: the wait of stop writes TxStatus = Success at its first poll when
\* that poll observes PendingStop or Stopped, whether or not the relay has
\* reached QUIT, and a later poll that observes one of the two leaves
\* TxStatus alone; the same for pause with PendingPause and Paused.
Observes(c) ==
    LET local_status == convert_node_status(chain_status) IN
    \/ cop[c] = "stop" /\ local_status \in {"PendingStop", "Stopped"}
    \/ cop[c] = "pause" /\ local_status \in {"PendingPause", "Paused"}

C18_SuccessAtFirstPoll ==
    [][\A c \in Calls :
          Poll(c) /\ Observes(c)
          => IF cpc[c] = "accepted"
             THEN tx_state' = TxState("Success", "")
             ELSE tx_state' = tx_state]_vars

\* Success is written and the wait of stop polls on, the relay not at QUIT
C18_Witness ==
    \E c \in Calls :
        /\ cop[c] = "stop" /\ cpc[c] = "poll"
        /\ chain_status = "PENDING_QUIT"
        /\ tx_state = TxState("Success", "")


\* C19: when start, stop, pause, resume or a wait fails with a relay
\* error, a failed assert or a ValueError, the caller gets the error (its
\* operation is over) and the cached TxStatus is Error with the message of
\* that error.
Recorded(c, m) == cpc'[c] = "idle" /\ tx_state' = TxState("Error", m)

\* caller c leaves the position where a call of the relay is outstanding
Leaves(c) == cpc[c] # "idle" /\ cpc'[c] = "idle"

\* (a call that ends at an assert writes TxStatus and nothing else: it is a
\* step that changes TxStatus, taken by a caller that is not at work)
C19_ErrorRecorded ==
    [][\A c \in Calls :
          /\ cpc[c] = "idle" /\ tx_state' # tx_state
             => \A op \in Ops :
                   /\ node_state # Required(op) \/ tx_state.status = "Pending"
                   /\ LifecycleCall(c, op)
                   => Recorded(c, IF node_state # Required(op)
                                  THEN NodeMsg(op) ELSE PendingMsg)
          /\ Leaves(c)
             => /\ (\E b \in Balances :
                       b < staking_amount /\ GotBalance(c, b))
                   => Recorded(c, BalanceMsg)
                /\ CallFail(c, "relay") => Recorded(c, RelayMsg)
                /\ /\ convert_node_status(chain_status)
                         \notin WaitAccepts(cop[c])
                   /\ Poll(c)
                   => Recorded(c, WaitMsg(cop[c]))]_vars

\* a relay error was recorded over the Success of an accepted stop or pause
\* whose wait was still polling
C19_Witness ==
    /\ tx_state = TxState("Error", RelayMsg)
    /\ node_state \in {"PendingStop", "PendingPause"}
    /\ \A c \in Calls : cpc[c] = "idle"

\* C20: when an operation or a wait fails with an exception that is not a
\* relay error, an assertion error or a ValueError, the caller gets the
\* exception and the cached TxState and NodeState are what they were when
\* it was raised.
C20_OtherLeavesCache ==
    [][\A c \in Calls :
          CallFail(c, "other")
          => /\ cpc'[c] = "idle"
             /\ tx_state' = tx_state
             /\ node_state' = node_state]_vars

\* no caller is at work and TxStatus is Pending: the wait of the accepted
\* transaction ended with such an exception, every other end writes TxStatus
C20_Witness ==
    /\ tx_state.status = "Pending"
    /\ \A c \in Calls : cpc[c] = "idle"


\* C21: a relay error during a tick of the sync loop does not end the loop:
\* start_sync is still running after it and polls again.
C21_RelayErrorKeepsLoop == [][SyncFail => sync_pc' = "poll"]_vars


\* the sync loop, try_start and the relay, with no caller of start, stop,
\* pause or resume
SyncNext ==
    \/ ChainStep
    \/ ScoreStep
    \/ SyncStart
    \/ SyncTick
    \/ SyncFail
    \/ StopSync
    \/ SyncCancelled
    \/ TryStartCall
    \/ TryInfo
    \/ \E b \in Balances : TryBalance(b)
    \/ TryTxOk
    \/ TryWait
    \/ TryFail

SpecSync == NodeInit /\ [][SyncNext]_vars

\* while the loop runs, the relay answers its request and the sleep ends;
\* a cancelled loop is resumed with its cancellation
SyncProgress == SyncTick \/ SyncCancelled

SpecSyncLive == SpecSync /\ WF_vars(SyncProgress)

C23_ConvertTable ==
    /\ convert_node_status("QUIT") = "Stopped"
    /\ convert_node_status("AVAILABLE") = "Running"
    /\ convert_node_status("BUSY") = "Running"
    /\ convert_node_status("PAUSED") = "Paused"
    /\ convert_node_status("PENDING_PAUSE") = "PendingPause"
    /\ convert_node_status("PENDING_QUIT") = "PendingStop"
    /\ \A cs \in ChainNodeStatus :
          convert_node_status(cs) \in NodeStatus \ {"Init", "Error"}
    /\ \A x \in Unmapped : convert_node_status(x) = "ValueError"
    /\ chain_status \in ChainNodeStatus
    /\ node_state \in {"Init"} \cup
          {convert_node_status(cs) : cs \in ChainNodeStatus}

\* a tick has mapped PENDING_QUIT
C23_Witness == chain_status = "PENDING_QUIT" /\ node_state = "PendingStop"


\* C24: try_start, when the relay reports AVAILABLE, BUSY, PENDING_PAUSE or
\* PENDING_QUIT, sends no transaction (it never reaches node_join or
\* node_resume), writes the mapped status into the cached NodeStatus,
\* leaves TxState as it is and returns.
C24_TryStartMirrors ==
    [][try_pc = "info" /\ TryInfo
          /\ chain_status \in {"AVAILABLE", "BUSY", "PENDING_PAUSE",
                               "PENDING_QUIT"}
       => /\ try_pc' = "off" /\ try_res' = "ok"
          /\ node_state' = convert_node_status(chain_status)
          /\ tx_state' = tx_state]_vars

\* try_start has returned after it mirrored PENDING_QUIT; no sync loop has
\* ever run
C24_Witness ==
    /\ try_pc = "off" /\ try_res = "ok"
    /\ node_state = "PendingStop"
    /\ score_state = NoScore


\* C25: stop_sync with no loop running changes nothing; on a running loop
\* a second call changes nothing after the first; once it is called the
\* loop does no further tick and ends, and start_sync is accepted again.
C25_StopSyncIdempotent ==
    /\ [][StopSync /\ sync_pc # "poll" => UNCHANGED vars]_vars
    /\ [][StopSync /\ sync_pc = "poll" => sync_pc' = "cancelled"]_vars
    /\ [][sync_pc = "cancelled"
          => /\ sync_pc' \in {"cancelled", "off"}
             /\ score_state' = score_state]_vars
    /\ (sync_pc = "cancelled") ~> (sync_pc = "off")
    /\ [](sync_pc = "off" => ENABLED SyncStart)

\* stop_sync was called on a loop that had run a tick
C25_Witness == sync_pc = "cancelled" /\ score_state # NoScore


\* C26: no caller of get is parked in Condition.wait() while the pool is
\* open, the idle queue is empty and the guard table holds fewer guards
\* than the pool size.
C26_NoWaiterWithRoom ==
    \A t \in Tasks :
        (pc[t] = "cond_wait" /\ t \in SeqSet(condQ))
        => ~(~closed /\ idle_pool = <<>> /\ Cardinality(guards) < pool_size)


\* C27: every id in the idle queue is a key of the guard table and is
\* held by no caller, no id occurs twice in the idle queue, the queue
\* never holds more than pool_size ids, and on_guard_idle never appends
\* to a full queue (the bounded deque drops nothing).
C27_IdleQueueSound ==
    /\ [](SeqSet(idle_pool) \subseteq guards)
    /\ [](\A t \in Tasks : Holding(t) => cur[t] \notin SeqSet(idle_pool))
    /\ [](Cardinality(SeqSet(idle_pool)) = Len(idle_pool))
    /\ [](Len(idle_pool) <= pool_size)
    /\ [][\A t \in Tasks :
            (pc[t] = "idle_locked" /\ cur[t] \in guards /\ OnGuardIdle(t))
            => /\ Len(idle_pool) < pool_size
               /\ idle_pool' = idle_pool \o <<cur[t]>>]_vars

\* every guard of a pool of more than one guard is idle, after one of
\* them was evicted and replaced
C27_Witness ==
    /\ pool_size > 1
    /\ Len(idle_pool) = pool_size
    /\ next_id - 1 > pool_size


\* position of an id in the idle queue (0 when absent)
IdlePos(q, id) == IF \E i \in 1..Len(q) : q[i] = id
                  THEN CHOOSE i \in 1..Len(q) : q[i] = id
                  ELSE 0

\* the ids that stay in the queue keep their order, and an id that enters
\* stands behind all of them
OrderKept(q, r) ==
    \A a, b \in SeqSet(r) :
        /\ (a \in SeqSet(q) /\ b \in SeqSet(q))
            => (IdlePos(r, a) < IdlePos(r, b) <=> IdlePos(q, a) < IdlePos(q, b))
        /\ (a \in SeqSet(q) /\ b \notin SeqSet(q))
            => IdlePos(r, a) < IdlePos(r, b)

\* C28: idle guards are reused in FIFO order.  The idle queue is ordered
\* by release time (a released id goes behind the ids already idle, and
\* the others keep their order in every step), get returns the id at the
\* front whenever the queue is not empty, and it returns a guard that was
\* not in the table before only when the queue is empty.
C28_FifoReuse ==
    /\ [][OrderKept(idle_pool, idle_pool')]_vars
    /\ [][\A t \in Tasks :
            (Returns(t) /\ idle_pool # <<>>)
            => /\ cur'[t] = Head(idle_pool)
               /\ idle_pool' = Tail(idle_pool)
               /\ guards' = guards]_vars
    /\ [][\A t \in Tasks :
            (Returns(t) /\ cur'[t] \notin guards)
            => /\ idle_pool = <<>>
               /\ guards' = guards \cup {cur'[t]}]_vars

\* a get holds the lock at line 271 while two guards are idle, the one
\* constructed later released first
C28_Witness ==
    \E t \in Tasks :
        /\ pc[t] = "get_locked"
        /\ lockOwner = t
        /\ ~closed
        /\ Len(idle_pool) = 2
        /\ idle_pool[1] > idle_pool[2]


\* inside close() of guard cur[p], past the test of the closed flag
Closing(p) == pc[p] \in {"gc_torn", "gc_locked"} /\ cur[p] # NoGuard

\* C29: close() of a guard is idempotent.  No two callers are inside the
\* teardown of one guard at a time, and on_guard_close is called for a
\* guard at most once: every call finds the guard still in the table (ids
\* are never reused), so that a second close changes no pool state.
C29_CloseIdempotent ==
    /\ [](\A p, q \in Procs :
            (p # q /\ Closing(p) /\ Closing(q)) => cur[p] # cur[q])
    /\ [][\A p \in Procs :
            (pc[p] = "gc_locked" /\ lockOwner = p /\ OnGuardClose(p))
            => cur[p] \in guards]_vars


\* C30: a poll that ends the wait of stop either observed QUIT and leaves
\* Stopped in the cache, or observed a status other than QUIT and
\* PENDING_QUIT and fails with the error of the assert; the same for pause
\* with PAUSED, Paused and PENDING_PAUSE.  A poll that observes the pending
\* status writes it to the cache and the wait polls on.  The wait ends in
\* no other way than a poll or a failing call.
C30_WaitEndsOnFinal ==
    /\ [][\A c \in Calls :
            (cop[c] \in {"stop", "pause"} /\ cpc[c] \in {"accepted", "poll"}
             /\ Poll(c))
            => /\ (chain_status = "PENDING_QUIT" /\ cop[c] = "stop")
                   => node_state' = "PendingStop" /\ cpc'[c] = "poll"
               /\ (chain_status = "PENDING_PAUSE" /\ cop[c] = "pause")
                   => node_state' = "PendingPause" /\ cpc'[c] = "poll"
               /\ (Leaves(c) /\ cop[c] = "stop")
                   => \/ chain_status = "QUIT" /\ node_state' = "Stopped"
                      \/ /\ chain_status \notin {"QUIT", "PENDING_QUIT"}
                         /\ tx_state' = TxState("Error", WaitStopMsg)
               /\ (Leaves(c) /\ cop[c] = "pause")
                   => \/ chain_status = "PAUSED" /\ node_state' = "Paused"
                      \/ /\ chain_status \notin {"PAUSED", "PENDING_PAUSE"}
                         /\ tx_state' = TxState("Error", WaitPauseMsg)]_vars
    /\ [][\A c \in Calls :
            (cop[c] \in {"stop", "pause"} /\ Leaves(c))
            => Poll(c) \/ \E k \in {"relay", "other"} : CallFail(c, k)]_vars

\* a poll of the wait of stop has written PendingStop, and the relay is
\* at QUIT for the next one
C30_Witness ==
    \E c \in Calls :
        /\ cop[c] = "stop" /\ cpc[c] = "poll"
        /\ node_state = "PendingStop"
        /\ chain_status = "QUIT"


\* C31: try_start sends get_balance only when the relay answered QUIT and
\* node_resume only when it answered PAUSED; node_join is sent once, after
\* a balance that covers the staking amount, and after the transaction
\* try_start does nothing but the poll of its wait.  From there it returns
\* normally only in a poll that observed AVAILABLE or BUSY, which leaves
\* NodeStatus = Running and TxStatus = Success; nothing of try_start is
\* left running after it returned.
C31_TryStartTransacts ==
    /\ [][(try_pc = "info" /\ try_pc' \in {"balance", "resume"})
            => /\ try_pc' = "balance" <=> chain_status = "QUIT"
               /\ try_pc' = "resume" <=> chain_status = "PAUSED"]_vars
    /\ [][(try_pc' = "join" /\ try_pc # "join")
            => /\ try_pc = "balance"
               /\ \E b \in Balances : b >= staking_amount /\ TryBalance(b)]_vars
    /\ [][(try_pc' = "resume" /\ try_pc # "resume") => try_pc = "info"]_vars
    /\ [][(try_pc \in {"join", "resume"} /\ try_pc' # try_pc)
            => \/ try_pc' = "wait"
               \/ try_pc' = "off" /\ try_res' = "relay"]_vars
    /\ [][(try_pc' = "wait" /\ try_pc # "wait")
            => try_pc \in {"join", "resume"}]_vars
    /\ [][(try_pc = "wait" /\ try_pc' # "wait")
            => /\ try_pc' = "off"
               /\ try_res' = "ok"
                   => /\ chain_status \in {"AVAILABLE", "BUSY"}
                      /\ node_state' = "Running"
                      /\ tx_state' = TxState("Success", "")]_vars
    /\ [][(try_pc \in {"balance", "join", "resume"}) => try_res' # "ok"]_vars

\* try_start has returned from its wait
C31_Witness ==
    /\ try_pc = "off" /\ try_res = "ok"
    /\ node_state = "Running"
    /\ tx_state = TxState("Success", "")


\* try_start at boot and try_stop at shutdown, with the sync loop and the
\* relay's status moving
BootNext ==
    \/ ChainStep
    \/ SyncStart
    \/ SyncTick
    \/ SyncFail
    \/ TryStartCall
    \/ TryInfo
    \/ \E b \in Balances : TryBalance(b)
    \/ TryTxOk
    \/ TryWait
    \/ TryFail
    \/ TryStopCall
    \/ TryStopInfo
    \/ TryStopTxOk
    \/ TryStopPoll
    \/ TryStopFail

SpecBoot == NodeInit /\ [][BootNext]_vars

\* C32: when the relay answers the request of try_stop with QUIT, try_stop
\* returns without sending node_quit and the cached NodeStatus is Stopped
\* when it returns; node_quit is sent only after an answer AVAILABLE.
C32_TryStopMirrors ==
    /\ [][(stop_pc = "info" /\ chain_status = "QUIT" /\ TryStopInfo)
            => /\ stop_pc' = "off" /\ stop_res' = "ok"
               /\ tx_state' = tx_state
               /\ node_state' = "Stopped"]_vars
    /\ [][(stop_pc' = "quit" /\ stop_pc # "quit")
            => stop_pc = "info" /\ chain_status = "AVAILABLE"]_vars


\* C33: while try_start waits after node_join or node_resume, and while
\* try_stop waits after node_quit, the cached TxStatus is Pending (the
\* status on which start, stop, pause and resume are rejected).
C33_PendingWhileTryWaits ==
    /\ try_pc = "wait" => tx_state.status = "Pending"
    /\ stop_pc \in {"wait", "poll"} => tx_state.status = "Pending"


\* C34: when the task of a caller is cancelled inside start, stop, pause
\* or resume or inside the wait, the caller's operation is over and the
\* cached TxState and NodeState are what they were when the cancellation
\* was delivered: no Error is recorded for it.
C34_CancelLeavesCache ==
    [][\A c \in Calls :
          (cpc[c] # "idle" /\ cpc'[c] = "idle" /\ CallFail(c, "cancel"))
          => /\ cop'[c] = "none"
             /\ tx_state' = tx_state
             /\ node_state' = node_state]_vars

\* the wait of an accepted start ended before its poll wrote anything:
\* TxStatus is still Pending and NodeStatus still Stopped
C34_Witness ==
    /\ tx_state = TxState("Pending", "")
    /\ node_state = "Stopped"
    /\ \A c \in Calls : cpc[c] = "idle"


\* the waits and the sync loop, each using the relay's answer later
SpecRace == NodeInit /\ [][RaceNext]_vars

\* the event loop runs a task whose answer has arrived, and the relay
\* answers the request of a running sync loop
TickProgress == TickSample \/ TickWrite

SpecRaceLive ==
    SpecRace /\ WF_vars(TickProgress) /\ WF_vars(PollWrite(Racer))


\* no answer of the relay that is older than its present status is in use
NoStaleAnswer ==
    /\ sync_sample \in {"none", chain_status}
    /\ csample[Racer] \in {"none", chain_status}

KeyInit ==
    /\ InitPool /\ InitNonce /\ InitNode
    /\ provider_type = "HTTP" /\ remote = 0
    /\ \E k \in {"", "key1"} : InitKey(k)
    /\ InitContracts

KeyNext ==
    \/ \E w \in Waiters : WaitPrivkeyCall(w)
    \/ \E w \in Waiters : WaitPrivkeyLocked(w)
    \/ \E w \in Waiters : WaitPrivkeyWake(w)
    \/ \E s \in Setters, k \in Keys : SetPrivkeyCall(s, k)
    \/ \E s \in Setters : SetPrivkeyLocked(s)

SpecKey == KeyInit /\ [][KeyNext]_vars

\* the event loop runs every task that can run; calls are not guaranteed
KeyProgress(p) ==
    \/ p \in Waiters /\ (WaitPrivkeyLocked(p) \/ WaitPrivkeyWake(p))
    \/ p \in Setters /\ SetPrivkeyLocked(p)

SpecKeyLive == SpecKey /\ \A p \in KeyProcs : WF_vars(KeyProgress(p))


\* wait_privkey returns only a non-empty key, the key of the moment, and
\* only while the key is not empty
ReturnsNonEmpty ==
    /\ [](\A w \in Waiters : kpc[w] = "done" => kret[w] # "")
    /\ [][\A w \in Waiters :
            (kpc[w] # "done" /\ kpc'[w] = "done")
            => privkey # "" /\ kret'[w] = privkey]_vars

\* a caller that parked in wait() has been notified by a set_privkey
Notified(w) == kpc[w] = "parked" /\ w \notin SeqSet(kwaiters)

C37_OneTransaction ==
    Cardinality({c \in Calls : cpc[c] = "tx"}) <= 1


\* C38: when try_stop ends in or after its wait, with its return or with
\* an error of a poll, the cached TxStatus is not Pending.
C38_TryStopLeavesNoPending ==
    [][(stop_pc \in {"wait", "poll"} /\ stop_pc' = "off")
          => tx_state'.status # "Pending"]_vars


\* ------------------------------------------------------ Contracts.init
\* contracts/__init__.py lines 68-144.  init() is the first caller of
\* get() on the pool of its Contracts object; the other tasks use the same
\* pool while it runs.
InitTask == CHOOSE t \in Tasks : \A u \in Tasks : t <= u

\* how the body of the guard scope of init (lines 78-136) ends: line 136
\* is reached, an Exception other than ConnectionClosed is raised (the
\* assert of line 78, a failed deployment), the transport raises
\* ConnectionClosed, or the task is cancelled
BodyOutcomes == {"ok", "error", "closed", "cancel"}

InitEnded == {"returned_self", "returned_none", "raised"}

notInit == <<poolVars, nonceVars, nodeVars, scoreVars, tryVars, stopVars,
             raceVars, keyVars>>

\* line 76: init() is called and enters its try
ContractsInitCall ==
    /\ init_pc = "off"
    /\ init_pc' = "get"
    /\ UNCHANGED initialized
    /\ UNCHANGED notInit

\* line 77: `await self._w3_pool.get()`; the first caller finds room, so
\* it does not wait on the condition
InitGet ==
    /\ init_pc = "get"
    /\ \/ GetCall(InitTask)
       \/ GetLocked(InitTask)
       \/ NewW3Ok(InitTask)
       \/ NewW3Fail(InitTask)

\* lines 78-136, the body of the scope: _initialized is set in line 134,
\* inside the scope, and `return self` of line 136 leaves the scope
InitBody(o) ==
    /\ init_pc = "get"
    /\ pc[InitTask] = "using"
    /\ init_pc' = "exit_" \o o
    /\ initialized' = IF o = "ok" THEN TRUE ELSE initialized
    /\ UNCHANGED notInit

\* W3Guard.__aexit__ of the guard of init: the guard closes itself when
\* the body raised ConnectionClosed and reports idle otherwise
InitScopeExit ==
    /\ init_pc \in {"exit_" \o o : o \in BodyOutcomes}
    /\ ScopeExit(InitTask)
    /\ (pc'[InitTask] = "idle_locked") <=> (init_pc # "exit_closed")

\* the rest of __aexit__ of the guard of init
InitGuardExit ==
    \/ OnGuardIdle(InitTask)
    \/ IdleExpire(InitTask)
    \/ GuardCloseTorn(InitTask)
    \/ OnGuardClose(InitTask)
    \/ CloseExpire(InitTask)

\* what init does when get() or the scope is over.  get() raised, or the
\* body raised an Exception that __aexit__ did not suppress: line 137
\* catches it.  The body reached line 136: init returns self.  The task
\* was cancelled: the cancellation is not an Exception, line 137 does not
\* catch it.  __aexit__ returned True (w3_pool.py line 61): the statement
\* ends normally, the try ends, init returns None.
AfterScope(at, res) ==
    CASE at = "get" -> "closing"
      [] at = "exit_ok" -> "returned_self"
      [] at = "exit_error" -> "closing"
      [] at = "exit_cancel" -> "raised"
      [] at = "exit_closed" ->
            IF res = "swallowed" THEN "returned_none" ELSE "closing"

InitAfterScope ==
    /\ init_pc \in {"get"} \cup {"exit_" \o o : o \in BodyOutcomes}
    /\ pc[InitTask] = "done"
    /\ init_pc' = AfterScope(init_pc, result[InitTask])
    /\ UNCHANGED initialized
    /\ UNCHANGED notInit

\* lines 138 and 141-144: Contracts.close awaits W3Pool.close
InitClose ==
    /\ init_pc = "closing"
    /\ \/ CloseCall
       \/ GuardCloseTorn(Closer)
       \/ OnGuardClose(Closer)
       \/ CloseExpire(Closer)
       \/ CloseLocked

\* line 139: the error caught in line 137 is raised again
InitRaise ==
    /\ init_pc = "closing"
    /\ pc[Closer] = "done"
    /\ init_pc' = "raised"
    /\ UNCHANGED initialized
    /\ UNCHANGED notInit

\* the other users of the pool
OtherTask(t) ==
    \/ GetCall(t) \/ GetLocked(t) \/ NewW3Ok(t) \/ NewW3Fail(t)
    \/ CondWake(t) \/ GetRelocked(t) \/ ScopeExit(t) \/ OnGuardIdle(t)
    \/ IdleExpire(t) \/ GuardCloseTorn(t) \/ OnGuardClose(t)
    \/ CloseExpire(t)

InitNext ==
    \/ ContractsInitCall
    \/ InitGet
    \/ \E o \in BodyOutcomes : InitBody(o)
    \/ InitScopeExit
    \/ InitGuardExit
    \/ InitAfterScope
    \/ InitClose
    \/ InitRaise
    \/ \E t \in Tasks \ {InitTask} : OtherTask(t)

\* Contracts.init and the pool of its object
SpecInit == Init /\ [][InitNext]_vars

\* C39: when Contracts.init has ended, it has either returned the
\* Contracts object with _initialized set, or raised with the pool closed;
\* it has not returned with _initialized unset.
C39_InitOutcomes ==
    init_pc \in InitEnded =>
        \/ init_pc = "returned_self" /\ initialized
        \/ init_pc = "raised" /\ closed

====
